---- MODULE Spec2Model ----
(***************************************************************************)
(* A model of the area-of-interest engine of aoi.h.                       *)
(*                                                                         *)
(* The C state `struct aoi` is the variable `aoi`; every C function is an  *)
(* operator from a value of `struct aoi` (and the call's arguments) to the *)
(* value after the call (and the call's result).  Pointers to objects are  *)
(* slot indices, NULL is -1.  A neighbour list is the sequence of its   *)
(* initialised cells: C's list[k] is At(list, k), list[0] is the logical   *)
(* length, list[1] the capacity, list[2..] the ids.                        *)
(***************************************************************************)
EXTENDS Integers, Sequences, FiniteSets, TLC

(***************************************************************************)
(* Bounds of the model.                                                    *)
(***************************************************************************)
\* Pool capacity.  The source sets 1<<16 (aoi.h:90-91); the model scales it.
AOI_MAX_AOI == 3

\* Default capacity of a neighbour list.  The source sets 32 (aoi.h:94); the
\* model scales it so that a list of two neighbours outgrows it.
AOI_DEF_AOI == 1

\* Spec, the whole API.  The counter aoi->id stays <= MaxId; coordinates are
\* in -NegX..0 by 0..MaxY, speeds in 0..MaxSpeed, ticks in 0..MaxTick, radii
\* 0 <= enter_r < leave_r <= MaxR, counts asked of aoi_around in 0..MaxN,
\* payloads in 1..MaxUd, consecutive creations getting different ones.  The
\* objects of the slots below MaxActor are the ones that get moved and scan.
MaxId == 4
NegX == 1
MaxY == 0
MaxSpeed == 1
MaxTick == 1
MaxR == 1
MaxN == 1
MaxUd == 2
MaxActor == 1

\* SpecScan, three objects on a line and one observer: the counter stays
\* <= ScanMaxId, x is in -ScanNegX..0, the radii are <= ScanMaxR.
ScanMaxId == 3
ScanNegX == 3
ScanMaxR == 2

\* SpecPool, the pool alone: the counter stays <= PoolMaxId.
PoolMaxId == 9

\* SpecMove, timed moves: the counter stays <= MoveMaxId, coordinates are in
\* 0..MoveMaxX by 0..MoveMaxY, speeds in 0..MoveMaxSpeed, ticks in
\* 0..MoveMaxTick.
MoveMaxId == 2
MoveMaxX == 3
MoveMaxY == 1
MoveMaxSpeed == 2
MoveMaxTick == 2

\* SpecReuse, scans across slot reuse: the counter stays <= ReuseMaxId and
\* x is in 0..ReuseMaxX.
ReuseMaxId == 6
ReuseMaxX == 2

(***************************************************************************)
(* Program constants.                                                      *)
(***************************************************************************)
AOI_ENTER == 1
AOI_LEAVE == 2
AOI_OBJECT_INVALID == 0
AOI_OBJECT_RESERVE == 1
NULL == -1

VARIABLES
    aoi,    \* struct aoi: [id, slot, list]
    last,   \* the latest API call: its name, return value and output, and for
            \* aoi_trigger its id and radii, for aoi_around its id and, as er,
            \* the count asked
    live,   \* history: id -> payload, for the ids created and not destroyed since
    dead,   \* history: the ids destroyed so far
    watch   \* history: the events one observer's scans emitted for one target

vars == <<aoi, last, live, dead, watch>>

Slots == 0 .. (AOI_MAX_AOI - 1)
Axes == 0 .. 1

Vec(x, y) == [i \in Axes |-> IF i = 0 THEN x ELSE y]

Abs(x) == IF x < 0 THEN -x ELSE x

\* C's list[k] of an int array held as a sequence.
At(list, k) == list[k + 1]

\* list[k] = v; writing the cell just past the initialised ones extends them.
SetAt(list, k, v) ==
    IF k + 1 = Len(list) + 1 THEN Append(list, v) ELSE [list EXCEPT ![k + 1] = v]

\* malloc((AOI_DEF_AOI + 2) * sizeof(int)) with list[0] = 0, list[1] = AOI_DEF_AOI.
NewList == <<0, AOI_DEF_AOI>>

\* The null list pointer left by memset.
NullList == <<>>

\* memset(obj, 0, sizeof *obj).  d and e are floats: d[i] is held as the
\* integer delta of the move (the float is d[i] / sqrt(d[0]^2 + d[1]^2)), e as
\* the speed the move was planned with (the float is pi * e / that root).
ZeroObj ==
    [id |-> 0, p |-> Vec(0, 0), sp |-> Vec(0, 0), dp |-> Vec(0, 0),
     d |-> Vec(0, 0), e |-> 0, p_tick |-> 0, n_tick |-> 0,
     type |-> AOI_OBJECT_INVALID, speed |-> 0,
     prev |-> Vec(NULL, NULL), next |-> Vec(NULL, NULL),
     n_list |-> NullList, o_list |-> NullList, ud |-> 0]

\* aoi_init: memset(aoi, 0, sizeof *aoi); aoi->id = 0.
aoi_init ==
    [id |-> 0, slot |-> [s \in Slots |-> ZeroObj], list |-> Vec(NULL, NULL)]

AOI_HASH_ID(id) == id % AOI_MAX_AOI

(***************************************************************************)
(* Object pool.                                                            *)
(***************************************************************************)
\* A pass that stops one slot short of the full round.
RECURSIVE NextIdLoop_short(_, _)
NextIdLoop_short(a, i) ==
    IF i >= AOI_MAX_AOI - 1 THEN [aoi |-> a, id |-> -1]
    ELSE LET a1 == [a EXCEPT !.id = @ + 1]
             id == IF a.id < 0 THEN a1.id + 2147483647 ELSE a.id
             h == AOI_HASH_ID(id)
         IN  IF a1.slot[h].type = AOI_OBJECT_INVALID
             THEN [aoi |-> [a1 EXCEPT !.slot[h] =
                              [ZeroObj EXCEPT !.type = AOI_OBJECT_RESERVE, !.id = id]],
                   id |-> id]
             ELSE NextIdLoop_short(a1, i + 1)

\* The for loop of _aoi_next_id, from round i.
RECURSIVE NextIdLoop(_, _)
NextIdLoop(a, i) ==
    IF i >= AOI_MAX_AOI THEN [aoi |-> a, id |-> -1]
    ELSE LET a1 == [a EXCEPT !.id = @ + 1]
             id == IF a.id < 0 THEN a1.id + 2147483647 ELSE a.id
             h == AOI_HASH_ID(id)
         IN  IF a1.slot[h].type = AOI_OBJECT_INVALID
             THEN [aoi |-> [a1 EXCEPT !.slot[h] =
                              [ZeroObj EXCEPT !.type = AOI_OBJECT_RESERVE, !.id = id]],
                   id |-> id]
             ELSE NextIdLoop(a1, i + 1)

\* An allocation that leaves the counter on the id it hands out.
_aoi_next_id_stay(a) ==
    LET r == NextIdLoop(a, 0)
    IN  IF r.id = -1 THEN r ELSE [r EXCEPT !.aoi.id = r.id]

_aoi_next_id(a) == NextIdLoop(a, 0)

\* A lookup that trusts the slot: the stored id is not compared.
_aoi_object_anyid(a, id) ==
    IF id < 0 THEN NULL
    ELSE LET h == AOI_HASH_ID(id)
         IN  IF a.slot[h].type = AOI_OBJECT_INVALID THEN NULL ELSE h

\* The object of an id: its slot index, or NULL.
_aoi_object(a, id) ==
    IF id < 0 THEN NULL
    ELSE LET h == AOI_HASH_ID(id)
         IN  IF a.slot[h].id # id \/ a.slot[h].type = AOI_OBJECT_INVALID
             THEN NULL
             ELSE h

\* One round of aoi_enter's loop: link obj at the head of axis i.
EnterLink(a, i, obj) ==
    LET a1 == [a EXCEPT !.slot[obj].next[i] = a.list[i]]
        a2 == IF a1.list[i] # NULL
              THEN [a1 EXCEPT !.slot[a1.list[i]].prev[i] = obj]
              ELSE a1
    IN  [a2 EXCEPT !.list[i] = obj]

aoi_enter(a, ud) ==
    LET r == _aoi_next_id(a)
        obj == _aoi_object(r.aoi, r.id)
    IN  IF r.id = -1 THEN [aoi |-> r.aoi, ret |-> -1]
        ELSE IF obj = NULL THEN [aoi |-> r.aoi, ret |-> -1]
        ELSE LET a2 == EnterLink(EnterLink(r.aoi, 0, obj), 1, obj)
             IN  [aoi |-> [a2 EXCEPT !.slot[obj].n_list = NewList,
                                     !.slot[obj].o_list = NewList,
                                     !.slot[obj].ud = ud],
                  ret |-> r.id]

(***************************************************************************)
(* The two axis lists.                                                     *)
(***************************************************************************)
\* An erase that forgets the head: the list keeps pointing at the object.
_aoi_list_erase_nohead(a, list, obj) ==
    LET a1 == IF a.slot[obj].prev[list] # NULL
              THEN [a EXCEPT !.slot[a.slot[obj].prev[list]].next[list] =
                                 a.slot[obj].next[list]]
              ELSE a
        a2 == IF a1.slot[obj].next[list] # NULL
              THEN [a1 EXCEPT !.slot[a1.slot[obj].next[list]].prev[list] =
                                  a1.slot[obj].prev[list]]
              ELSE a1
    IN  [a2 EXCEPT !.slot[obj].next[list] = NULL, !.slot[obj].prev[list] = NULL]

_aoi_list_erase(a, list, obj) ==
    LET a1 == IF a.slot[obj].prev[list] # NULL
              THEN [a EXCEPT !.slot[a.slot[obj].prev[list]].next[list] =
                                 a.slot[obj].next[list]]
              ELSE [a EXCEPT !.list[list] = a.slot[obj].next[list]]
        a2 == IF a1.slot[obj].next[list] # NULL
              THEN [a1 EXCEPT !.slot[a1.slot[obj].next[list]].prev[list] =
                                  a1.slot[obj].prev[list]]
              ELSE a1
    IN  [a2 EXCEPT !.slot[obj].next[list] = NULL, !.slot[obj].prev[list] = NULL]

_aoi_list_insert_after(a, list, obj, p) ==
    IF obj = p THEN a
    ELSE LET a1 == [a EXCEPT !.slot[obj].next[list] = a.slot[p].next[list],
                             !.slot[obj].prev[list] = p]
             a2 == IF a1.slot[p].next[list] # NULL
                   THEN [a1 EXCEPT !.slot[a1.slot[p].next[list]].prev[list] = obj]
                   ELSE a1
         IN  [a2 EXCEPT !.slot[p].next[list] = obj]

_aoi_list_insert_before(a, list, obj, p) ==
    IF obj = p THEN a
    ELSE LET a1 == [a EXCEPT !.slot[obj].next[list] = p,
                             !.slot[obj].prev[list] = a.slot[p].prev[list]]
             a2 == IF a1.slot[p].prev[list] # NULL
                   THEN [a1 EXCEPT !.slot[a1.slot[p].prev[list]].next[list] = obj]
                   ELSE [a1 EXCEPT !.list[list] = obj]
         IN  [a2 EXCEPT !.slot[p].prev[list] = obj]

\* The forward walk of _aoi_update_list: the p at which the loop breaks.
RECURSIVE WalkNext(_, _, _, _)
WalkNext(a, i, obj, p) ==
    LET nx == a.slot[p].next[i]
    IN  IF nx = NULL THEN p
        ELSE IF a.slot[nx].p[i] > a.slot[obj].p[i] THEN p
        ELSE WalkNext(a, i, obj, nx)

\* The backward walk of _aoi_update_list.
RECURSIVE WalkPrev(_, _, _, _)
WalkPrev(a, i, obj, p) ==
    LET pv == a.slot[p].prev[i]
    IN  IF pv = NULL THEN p
        ELSE IF a.slot[pv].p[i] < a.slot[obj].p[i] THEN p
        ELSE WalkPrev(a, i, obj, pv)

\* One round of _aoi_update_list's loop: axis i.
UpdateAxis(a, obj, d, i) ==
    IF d[i] > 0
    THEN LET p == WalkNext(a, i, obj, obj)
         IN  IF p # obj
             THEN _aoi_list_insert_after(_aoi_list_erase(a, i, obj), i, obj, p)
             ELSE a
    ELSE IF d[i] < 0
    THEN LET p == WalkPrev(a, i, obj, obj)
         IN  IF p # obj
             THEN _aoi_list_insert_before(_aoi_list_erase(a, i, obj), i, obj, p)
             ELSE a
    ELSE a

_aoi_update_list(a, obj, d) == UpdateAxis(UpdateAxis(a, obj, d, 0), obj, d, 1)

\* A destroy that frees whatever object holds the slot of the id.
aoi_leave_byslot(a, id) ==
    LET obj == _aoi_object_anyid(a, id)
    IN  IF obj = NULL THEN a
        ELSE LET a2 == _aoi_list_erase(_aoi_list_erase(a, 0, obj), 1, obj)
             IN  [a2 EXCEPT !.slot[obj] = ZeroObj]

aoi_leave(a, id) ==
    LET obj == _aoi_object(a, id)
    IN  IF obj = NULL THEN a
        ELSE LET a2 == _aoi_list_erase(_aoi_list_erase(a, 0, obj), 1, obj)
             IN  [a2 EXCEPT !.slot[obj] = ZeroObj]

\* The payload, 0 when the id has no object.
aoi_ud(a, id) ==
    LET obj == _aoi_object(a, id)
    IN  IF obj # NULL THEN a.slot[obj].ud ELSE 0

\* A teleport that also ends the move in progress.
aoi_locate_cancel(a, id, x, y) ==
    LET obj == _aoi_object(a, id)
    IN  IF obj = NULL THEN a
        ELSE LET d == Vec(x - a.slot[obj].p[0], y - a.slot[obj].p[1])
                 a1 == [a EXCEPT !.slot[obj].p = Vec(x, y),
                                 !.slot[obj].n_tick = 0]
             IN  _aoi_update_list(a1, obj, d)

aoi_locate(a, id, x, y) ==
    LET obj == _aoi_object(a, id)
    IN  IF obj = NULL THEN a
        ELSE LET d == Vec(x - a.slot[obj].p[0], y - a.slot[obj].p[1])
                 a1 == [a EXCEPT !.slot[obj].p = Vec(x, y)]
             IN  _aoi_update_list(a1, obj, d)

aoi_moving(a, id) ==
    LET obj == _aoi_object(a, id)
    IN  IF obj = NULL THEN 0
        ELSE IF a.slot[obj].n_tick > 0 THEN 1 ELSE 0

(***************************************************************************)
(* Neighbour lists, the proximity scan and the event diff.                 *)
(***************************************************************************)
\* The else-branch loop of _insert_list, from index i.
RECURSIVE InsertScan(_, _, _)
InsertScan(list, id, i) ==
    LET cur == At(list, 0)
    IN  IF i > cur + 1 THEN list
        ELSE IF id < At(list, i)
        THEN SetAt(SubSeq(list, 1, i) \o <<id>> \o SubSeq(list, i + 1, cur + 2),
                   0, cur + 1)
        ELSE IF id = At(list, i) THEN list
        ELSE InsertScan(list, id, i + 1)

\* An insertion that always writes the id after the last cell.
_insert_list_append(list, id) ==
    LET cur == At(list, 0)
        l1 == IF cur >= At(list, 1) THEN SetAt(list, 1, At(list, 1) * 2) ELSE list
    IN  SetAt(SetAt(l1, cur + 2, id), 0, cur + 1)

_insert_list(list, id) ==
    LET cur == At(list, 0)
        l1 == IF cur >= At(list, 1) THEN SetAt(list, 1, At(list, 1) * 2) ELSE list
    IN  IF cur = 0 \/ id > At(l1, cur + 1)
        THEN SetAt(SetAt(l1, cur + 2, id), 0, cur + 1)
        ELSE InsertScan(l1, id, 2)

_find_list(list, id) ==
    LET cur == At(list, 0)
    IN  IF cur = 0 THEN 0
        ELSE IF id > At(list, cur + 1) THEN 0
        ELSE IF \E i \in 2 .. (cur + 1) : At(list, i) = id THEN 1
        ELSE 0

\* A walk that takes every object within leave_r, in the old snapshot or not.
RECURSIVE TriggerWalk_nofind(_, _, _, _, _, _, _)
TriggerWalk_nofind(a, obj, i, p, enter_r, leave_r, cur_list) ==
    IF p = NULL THEN cur_list
    ELSE LET dx == Abs(a.slot[obj].p[0] - a.slot[p].p[0])
             dy == Abs(a.slot[obj].p[1] - a.slot[p].p[1])
             d == dx * dx + dy * dy
             q == IF i = 0 THEN a.slot[p].prev[0] ELSE a.slot[p].next[0]
         IN  IF dx > leave_r THEN cur_list
             ELSE IF d <= leave_r * leave_r
             THEN TriggerWalk_nofind(a, obj, i, q, enter_r, leave_r,
                                     _insert_list(cur_list, a.slot[p].id))
             ELSE TriggerWalk_nofind(a, obj, i, q, enter_r, leave_r, cur_list)

\* The while (p) loop of aoi_trigger in direction i (0: prev[0], 1: next[0]):
\* the candidate list after it.
RECURSIVE TriggerWalk(_, _, _, _, _, _, _)
TriggerWalk(a, obj, i, p, enter_r, leave_r, cur_list) ==
    IF p = NULL THEN cur_list
    ELSE LET dx == Abs(a.slot[obj].p[0] - a.slot[p].p[0])
             dy == Abs(a.slot[obj].p[1] - a.slot[p].p[1])
             d == dx * dx + dy * dy
             q == IF i = 0 THEN a.slot[p].prev[0] ELSE a.slot[p].next[0]
         IN  IF dx > leave_r THEN cur_list
             ELSE IF d <= enter_r * enter_r
             THEN TriggerWalk(a, obj, i, q, enter_r, leave_r,
                              _insert_list(cur_list, a.slot[p].id))
             ELSE IF d <= leave_r * leave_r
                     /\ _find_list(a.slot[obj].o_list, a.slot[p].id) # 0
             THEN TriggerWalk(a, obj, i, q, enter_r, leave_r,
                              _insert_list(cur_list, a.slot[p].id))
             ELSE TriggerWalk(a, obj, i, q, enter_r, leave_r, cur_list)

\* The events list[from .. to] of a list, all of kind e.
EventsOf(list, from, to, e) ==
    [k \in 1 .. (to - from + 1) |-> [id |-> At(list, from + k - 1), e |-> e]]

\* A merge that reports the ids of destroyed objects as LEAVE events too.
RECURSIVE TriggerDiff_noskip(_, _, _, _, _, _)
TriggerDiff_noskip(a, o_list, cur_list, o_i, n_i, ev) ==
    LET o_cnt == At(o_list, 0)
        n_cnt == At(cur_list, 0)
    IN  IF o_i > o_cnt + 1
        THEN ev \o EventsOf(cur_list, n_i, n_cnt + 1, AOI_ENTER)
        ELSE IF n_i > n_cnt + 1
        THEN ev \o EventsOf(o_list, o_i, o_cnt + 1, AOI_LEAVE)
        ELSE LET o == At(o_list, o_i)
                 n == At(cur_list, n_i)
             IN  IF n < o
                 THEN TriggerDiff_noskip(a, o_list, cur_list, o_i, n_i + 1,
                                         Append(ev, [id |-> n, e |-> AOI_ENTER]))
                 ELSE IF n = o
                 THEN TriggerDiff_noskip(a, o_list, cur_list, o_i + 1, n_i + 1, ev)
                 ELSE TriggerDiff_noskip(a, o_list, cur_list, o_i + 1, n_i,
                                         Append(ev, [id |-> o, e |-> AOI_LEAVE]))

\* The for (;;) loop of aoi_trigger: the events written to elist.
RECURSIVE TriggerDiff(_, _, _, _, _, _)
TriggerDiff(a, o_list, cur_list, o_i, n_i, ev) ==
    LET o_cnt == At(o_list, 0)
        n_cnt == At(cur_list, 0)
    IN  IF o_i > o_cnt + 1
        THEN ev \o EventsOf(cur_list, n_i, n_cnt + 1, AOI_ENTER)
        ELSE IF n_i > n_cnt + 1
        THEN ev \o EventsOf(o_list, o_i, o_cnt + 1, AOI_LEAVE)
        ELSE LET o == At(o_list, o_i)
                 n == At(cur_list, n_i)
             IN  IF _aoi_object(a, o) = NULL
                 THEN TriggerDiff(a, o_list, cur_list, o_i + 1, n_i, ev)
                 ELSE IF n < o
                 THEN TriggerDiff(a, o_list, cur_list, o_i, n_i + 1,
                                  Append(ev, [id |-> n, e |-> AOI_ENTER]))
                 ELSE IF n = o
                 THEN TriggerDiff(a, o_list, cur_list, o_i + 1, n_i + 1, ev)
                 ELSE TriggerDiff(a, o_list, cur_list, o_i + 1, n_i,
                                  Append(ev, [id |-> o, e |-> AOI_LEAVE]))

\* The events of a scan: the first r cells of elist.
TriggerEvents(a, o_list, cur_list) ==
    IF At(o_list, 0) = 0
    THEN EventsOf(cur_list, 2, At(cur_list, 0) + 1, AOI_ENTER)
    ELSE TriggerDiff(a, o_list, cur_list, 2, 2, <<>>)

\* A scan that keeps the old snapshot: the computed list is not swapped in.
TriggerSwap_kept(a, obj, cur_list) ==
    [a EXCEPT !.slot[obj].n_list = cur_list]

\* The change of list version that ends aoi_trigger.
TriggerSwap(a, obj, cur_list) ==
    [a EXCEPT !.slot[obj].n_list = a.slot[obj].o_list,
              !.slot[obj].o_list = cur_list]

\* [aoi: the state after, r: the count returned, list: elist[0 .. r-1]].
aoi_trigger(a, id, enter_r, leave_r) ==
    LET obj == _aoi_object(a, id)
    IN  IF obj = NULL THEN [aoi |-> a, r |-> 0, list |-> <<>>]
        ELSE LET c0 == <<0, At(a.slot[obj].n_list, 1)>>
                 c1 == TriggerWalk(a, obj, 0, a.slot[obj].prev[0],
                                   enter_r, leave_r, c0)
                 c2 == TriggerWalk(a, obj, 1, a.slot[obj].next[0],
                                   enter_r, leave_r, c1)
                 ev == TriggerEvents(a, a.slot[obj].o_list, c2)
             IN  [aoi |-> TriggerSwap(a, obj, c2), r |-> Len(ev), list |-> ev]

\* [ret: the count returned, list: the cells written to the caller's array].
aoi_around(a, id, n) ==
    LET obj == _aoi_object(a, id)
    IN  IF obj = NULL THEN [ret |-> 0, list |-> <<>>]
        ELSE LET n_list == a.slot[obj].n_list
                 m == IF n > At(n_list, 0) THEN At(n_list, 0) ELSE n
             IN  [ret |-> m, list |-> [k \in 1 .. m |-> At(n_list, k - 1)]]

(***************************************************************************)
(* Movement.  The float arithmetic of aoi_move and _aoi_object_update is   *)
(* done in fixed point, FxS units to 1: the square root to 1/1000, sine    *)
(* squared by the cosine series to 1/FxS.  The positions so computed are   *)
(* those of the float arithmetic for coordinates in -4..3 and speeds <= 2. *)
(***************************************************************************)
FxS == 10000
\* (float)M_PI, and its double and half, in FxS units.
FxPi == 31416
FxTwoPi == 62832
FxHalfPi == 15708

\* The integer square root, by bisection between lo and hi.
RECURSIVE IsqrtBetween(_, _, _)
IsqrtBetween(n, lo, hi) ==
    IF lo >= hi THEN lo
    ELSE LET mid == (lo + hi + 1) \div 2
         IN  IF mid * mid <= n THEN IsqrtBetween(n, mid, hi)
             ELSE IsqrtBetween(n, lo, mid - 1)

\* (int)sqrtf((float)n).
Isqrt(n) == IsqrtBetween(n, 0, IF n < 46340 THEN n ELSE 46340)

\* cos(w) in FxS units for 0 <= w <= FxHalfPi: the series to w^10.
FxCosSeries(w) ==
    LET w2 == (w * w) \div FxS
        t1 == w2 \div 2
        t2 == (t1 * w2) \div (12 * FxS)
        t3 == (t2 * w2) \div (30 * FxS)
        t4 == (t3 * w2) \div (56 * FxS)
        t5 == (t4 * w2) \div (90 * FxS)
    IN  FxS - t1 + t2 - t3 + t4 - t5

\* sinf(e * p_tick) * sinf(e * p_tick) in FxS units, where e = pi * es / c and
\* ck = 1000 * c: sin^2(x) = (1 - cos(2x)) / 2.
FxSinSq(es, p_tick, ck) ==
    LET t == ((FxTwoPi * Abs(es * p_tick) * 1000) \div ck) % FxTwoPi
        u == IF t <= FxTwoPi - t THEN t ELSE FxTwoPi - t
        c == IF u <= FxHalfPi THEN FxCosSeries(u) ELSE -FxCosSeries(FxPi - u)
    IN  (FxS - c) \div 2

\* (int)(v / FxS): C's conversion truncates toward zero.
FxToInt(v) == IF v >= 0 THEN v \div FxS ELSE -((-v) \div FxS)

\* The position on axis i in the moving step of _aoi_object_update:
\* (int)(sp[i] + d[i] * speed * p_tick + ((i << 1) - 1) * d[i] * s).
MovingStep(o, i) ==
    LET ck == Isqrt((o.d[0] * o.d[0] + o.d[1] * o.d[1]) * 1000000)
        s == FxSinSq(o.e, o.p_tick, ck)
        n == o.d[i] * (o.speed * o.p_tick * FxS + ((2 * i) - 1) * s) * 1000
    IN  FxToInt(o.sp[i] * FxS + (n \div ck))

aoi_move(a, id, x, y) ==
    LET obj == _aoi_object(a, id)
    IN  IF obj = NULL THEN a
        ELSE IF a.slot[obj].speed <= 0
                \/ (x = a.slot[obj].p[0] /\ y = a.slot[obj].p[1])
        THEN a
        ELSE LET o == a.slot[obj]
                 d == Vec(x - o.p[0], y - o.p[1])
                 c == Isqrt(d[0] * d[0] + d[1] * d[1])
             IN  [a EXCEPT !.slot[obj] =
                     [o EXCEPT !.sp = o.p, !.dp = Vec(x, y), !.d = d,
                               !.e = o.speed, !.n_tick = c \div o.speed,
                               !.p_tick = 0]]

aoi_speed(a, id, speed) ==
    LET obj == _aoi_object(a, id)
    IN  IF obj = NULL THEN a
        ELSE LET a1 == [a EXCEPT !.slot[obj].speed = speed]
             IN  IF a1.slot[obj].n_tick > 0
                 THEN aoi_move(a1, a1.slot[obj].id,
                               a1.slot[obj].dp[0], a1.slot[obj].dp[1])
                 ELSE a1

\* An advance that takes the whole tick, past the end of the move.
_aoi_object_update_noclamp(a, obj, tick) ==
    LET o == a.slot[obj]
        o1 == [o EXCEPT !.n_tick = @ - tick, !.p_tick = @ + tick]
        d == [i \in Axes |-> IF o1.d[i] > 0 THEN 1 ELSE -1]
        o2 == IF o1.n_tick <= 0
              THEN [o1 EXCEPT !.p = o1.dp]
              ELSE [o1 EXCEPT !.p = [i \in Axes |-> MovingStep(o1, i)]]
    IN  _aoi_update_list([a EXCEPT !.slot[obj] = o2], obj, d)

_aoi_object_update(a, obj, tick) ==
    LET o == a.slot[obj]
        ti == IF tick < o.n_tick THEN tick ELSE o.n_tick
        o1 == [o EXCEPT !.n_tick = @ - ti, !.p_tick = @ + ti]
        d == [i \in Axes |-> IF o1.d[i] > 0 THEN 1 ELSE -1]
        o2 == IF o1.n_tick <= 0
              THEN [o1 EXCEPT !.p = o1.dp]
              ELSE [o1 EXCEPT !.p = [i \in Axes |-> MovingStep(o1, i)]]
    IN  _aoi_update_list([a EXCEPT !.slot[obj] = o2], obj, d)

aoi_update(a, id, tick) ==
    LET obj == _aoi_object(a, id)
    IN  IF obj = NULL THEN a
        ELSE IF a.slot[obj].type = AOI_OBJECT_INVALID \/ a.slot[obj].speed <= 0
        THEN a
        ELSE IF a.slot[obj].n_tick <= 0 THEN a
        ELSE _aoi_object_update(a, obj, tick)

\* *px, *py after the call, given their values before it.
aoi_pos(a, id, px, py) ==
    LET obj == _aoi_object(a, id)
    IN  IF obj = NULL THEN Vec(px, py) ELSE a.slot[obj].p

(***************************************************************************)
(* The state machine: one action per API call.                             *)
(***************************************************************************)
Call(op, id, enter_r, leave_r, ret, out) ==
    [op |-> op, id |-> id, er |-> enter_r, lr |-> leave_r, ret |-> ret, out |-> out]

\* The squared distance of the objects of two ids, -1 unless both have one.
Dist2(a, id1, id2) ==
    LET o1 == _aoi_object(a, id1)
        o2 == _aoi_object(a, id2)
    IN  IF o1 = NULL \/ o2 = NULL THEN -1
        ELSE (a.slot[o1].p[0] - a.slot[o2].p[0]) * (a.slot[o1].p[0] - a.slot[o2].p[0])
             + (a.slot[o1].p[1] - a.slot[o2].p[1]) * (a.slot[o1].p[1] - a.slot[o2].p[1])

(***************************************************************************)
(* History of one observer, WatchA, and one target, WatchB: the events     *)
(* the scans of WatchA emit for WatchB.                                    *)
(*   run = 0: WatchA has not scanned yet;                                  *)
(*   run = 1: its first scan found WatchB at distance 0, every scan since  *)
(*            used the same radii, and the distance never decreased;       *)
(*   run = 2: every scan used the same radii, the distance has decreased   *)
(*            or did not start at 0;                                       *)
(*   run = 3: a scan used other radii, or WatchA or WatchB was destroyed.  *)
(* WatchA and WatchB are the first two ids the pool issues.                 *)
(* ev is the kind of the latest event, alt whether the events alternated   *)
(* ENTER, LEAVE, ENTER, ... so far, nE and nL count them (up to 2).        *)
(***************************************************************************)
WatchA == CHOOSE id \in 0 .. (ScanMaxId - 1) : \A j \in 0 .. (ScanMaxId - 1) : id <= j
WatchB == WatchA + 1

WatchInit == [run |-> 0, er |-> 0, lr |-> 0, ev |-> 0, alt |-> TRUE, nE |-> 0, nL |-> 0]

\* The kinds of the events for WatchB among the events of a scan, in order.
WatchKinds(out) ==
    LET sel == SelectSeq(out, LAMBDA v : v.id = WatchB)
    IN  [k \in 1 .. Len(sel) |-> sel[k].e]

RECURSIVE WatchCount(_, _)
WatchCount(m, kinds) ==
    IF kinds = <<>> THEN m
    ELSE LET e == Head(kinds)
             ok == IF e = AOI_ENTER THEN m.ev # AOI_ENTER ELSE m.ev = AOI_ENTER
             m1 == [m EXCEPT !.ev = e, !.alt = @ /\ ok,
                             !.nE = IF e = AOI_ENTER /\ @ < 2 THEN @ + 1 ELSE @,
                             !.nL = IF e = AOI_LEAVE /\ @ < 2 THEN @ + 1 ELSE @]
         IN  WatchCount(m1, Tail(kinds))

\* The history once it is no longer followed.
WatchOff(m) == [WatchInit EXCEPT !.run = 3, !.alt = m.alt]

\* The history once the distance has decreased: the counts are dropped.
WatchFree(m) == [m EXCEPT !.run = 2, !.nE = 0, !.nL = 0]

WatchStep(m, a, a2, call) ==
    IF m.run = 3 THEN m
    ELSE IF call.op = "trigger" /\ call.id = WatchA /\ _aoi_object(a, WatchA) # NULL
    THEN IF m.run = 0
         THEN LET m1 == WatchCount([m EXCEPT !.run = 1, !.er = call.er, !.lr = call.lr],
                                   WatchKinds(call.out))
              IN  IF Dist2(a, WatchA, WatchB) = 0 THEN m1 ELSE WatchFree(m1)
         ELSE IF call.er # m.er \/ call.lr # m.lr THEN WatchOff(m)
         ELSE IF m.run = 1 THEN WatchCount(m, WatchKinds(call.out))
         ELSE WatchFree(WatchCount(m, WatchKinds(call.out)))
    ELSE IF m.run = 0 THEN m
    ELSE IF _aoi_object(a2, WatchA) = NULL THEN WatchOff(m)
    ELSE IF _aoi_object(a2, WatchB) = NULL /\ _aoi_object(a, WatchB) # NULL
    THEN WatchOff(m)
    ELSE IF m.run = 1 /\ Dist2(a2, WatchA, WatchB) < Dist2(a, WatchA, WatchB)
    THEN WatchFree(m)
    ELSE m

Init ==
    /\ aoi = aoi_init
    /\ last = Call("init", -1, 0, 0, 0, <<>>)
    /\ live = <<>>
    /\ dead = {}
    /\ watch = WatchInit

\* A call that takes the state to a2 and is recorded as call.
Do(a2, call) ==
    /\ aoi' = a2
    /\ last' = call

Enter(ud, maxid) ==
    LET r == aoi_enter(aoi, ud)
    IN  /\ r.aoi.id <= maxid
        /\ Do(r.aoi, Call("enter", -1, 0, 0, r.ret, <<>>))
        /\ live' = IF r.ret # -1 THEN (r.ret :> ud) @@ live ELSE live
        /\ dead' = dead

Leave(id) ==
    /\ Do(aoi_leave(aoi, id), Call("leave", -1, 0, 0, 0, <<>>))
    /\ live' = [i \in (DOMAIN live) \ {id} |-> live[i]]
    /\ dead' = IF id \in DOMAIN live THEN dead \cup {id} ELSE dead

Locate(id, x, y) ==
    /\ Do(aoi_locate(aoi, id, x, y), Call("locate", -1, 0, 0, 0, <<>>))
    /\ UNCHANGED <<live, dead>>

Move(id, x, y) ==
    /\ Do(aoi_move(aoi, id, x, y), Call("move", -1, 0, 0, 0, <<>>))
    /\ UNCHANGED <<live, dead>>

Speed(id, speed) ==
    /\ Do(aoi_speed(aoi, id, speed), Call("speed", -1, 0, 0, 0, <<>>))
    /\ UNCHANGED <<live, dead>>

Update(id, tick) ==
    /\ Do(aoi_update(aoi, id, tick), Call("update", -1, 0, 0, 0, <<>>))
    /\ UNCHANGED <<live, dead>>

Trigger(id, enter_r, leave_r) ==
    LET r == aoi_trigger(aoi, id, enter_r, leave_r)
    IN  /\ Do(r.aoi, Call("trigger", id, enter_r, leave_r, r.r, r.list))
        /\ UNCHANGED <<live, dead>>

Around(id, n) ==
    LET r == aoi_around(aoi, id, n)
    IN  /\ Do(aoi, Call("around", id, n, 0, r.ret, r.list))
        /\ UNCHANGED <<live, dead>>

RadiiTo(m) == {r \in (0 .. m) \X (0 .. m) : r[1] < r[2]}

(***************************************************************************)
(* Spec: the whole API.                                                    *)
(***************************************************************************)
\* The ids a caller may pass: negative, issued (live or stale), not issued.
Ids == -1 .. (MaxId - 1)
Actors == {id \in Ids : id >= 0 /\ AOI_HASH_ID(id) < MaxActor}
Xs == (0 - NegX) .. 0
Ys == 0 .. MaxY

Next ==
    /\ \/ Enter((aoi.id % MaxUd) + 1, MaxId)
       \/ \E id \in Ids : Leave(id)
       \/ \E id \in Ids, x \in Xs, y \in Ys : Locate(id, x, y)
       \/ \E id \in Actors, x \in Xs, y \in Ys : Move(id, x, y)
       \/ \E id \in Actors, speed \in 0 .. MaxSpeed : Speed(id, speed)
       \/ \E id \in Actors, tick \in 0 .. MaxTick : Update(id, tick)
       \/ \E id \in Actors, r \in RadiiTo(MaxR) : Trigger(id, r[1], r[2])
       \/ \E id \in Actors, n \in 0 .. MaxN : Around(id, n)
    /\ UNCHANGED watch

Spec == Init /\ [][Next]_vars

(***************************************************************************)
(* SpecScan: objects created, destroyed and teleported along the x axis,   *)
(* and the scans of WatchA, with the history of its events for WatchB.     *)
(***************************************************************************)
ScanIds == 0 .. (ScanMaxId - 1)
ScanXs == (0 - ScanNegX) .. 0

NextScan ==
    /\ \/ Enter(1, ScanMaxId)
       \/ \E id \in ScanIds : Leave(id)
       \/ \E id \in ScanIds, x \in ScanXs : Locate(id, x, 0)
       \/ \E r \in RadiiTo(ScanMaxR) : Trigger(WatchA, r[1], r[2])
       \/ \E n \in 0 .. MaxN : Around(WatchA, n)
    /\ watch' = WatchStep(watch, aoi, aoi', last')

SpecScan == Init /\ [][NextScan]_vars

(***************************************************************************)
(* SpecPool: the pool filled, exhausted and recycled.                      *)
(***************************************************************************)
PoolIds == -1 .. (PoolMaxId - 1)

NextPool ==
    /\ \/ Enter(1, PoolMaxId)
       \/ \E id \in PoolIds : Leave(id)
       \/ \E id \in PoolIds, x \in Xs : Locate(id, x, 0)
    /\ UNCHANGED watch

SpecPool == Init /\ [][NextPool]_vars

(***************************************************************************)
(* SpecMove: the first object is moved, advanced and changes speed; it and *)
(* a second one are teleported along the x axis.                           *)
(***************************************************************************)
MoveIds == 0 .. (MoveMaxId - 1)
MoveXs == 0 .. MoveMaxX
MoveYs == 0 .. MoveMaxY
Mover == CHOOSE id \in MoveIds : \A j \in MoveIds : id <= j

NextMove ==
    /\ \/ Enter(1, MoveMaxId)
       \/ \E id \in MoveIds, x \in MoveXs : Locate(id, x, 0)
       \/ \E x \in MoveXs, y \in MoveYs : Move(Mover, x, y)
       \/ \E speed \in 0 .. MoveMaxSpeed : Speed(Mover, speed)
       \/ \E tick \in 0 .. MoveMaxTick : Update(Mover, tick)
    /\ UNCHANGED watch

SpecMove == Init /\ [][NextMove]_vars

(***************************************************************************)
(* SpecReuse: WatchA stays and scans while the other objects are           *)
(* teleported, destroyed and replaced by objects with new ids.             *)
(***************************************************************************)
ReuseIds == (WatchA + 1) .. (ReuseMaxId - 1)

NextReuse ==
    /\ \/ Enter(1, ReuseMaxId)
       \/ \E id \in ReuseIds : Leave(id)
       \/ \E id \in ReuseIds, x \in 0 .. ReuseMaxX : Locate(id, x, 0)
       \/ \E r \in RadiiTo(MaxR) : Trigger(WatchA, r[1], r[2])
    /\ UNCHANGED watch

SpecReuse == Init /\ [][NextReuse]_vars

(***************************************************************************)
(* What the claims speak of.                                               *)
(***************************************************************************)
\* The objects of axis i from p on, following next[i].
RECURSIVE Chain(_, _, _)
Chain(a, i, p) ==
    IF p = NULL THEN <<>> ELSE <<p>> \o Chain(a, i, a.slot[p].next[i])

\* The axis list i, from aoi->list[i].
AxisSeq(a, i) == Chain(a, i, a.list[i])

\* Adjacent objects of axis list i have non-decreasing p[i].
Sorted(a, i) ==
    LET s == AxisSeq(a, i)
    IN  \A k \in 1 .. (Len(s) - 1) : a.slot[s[k]].p[i] <= a.slot[s[k + 1]].p[i]

\* The ids of a neighbour list: list[2 .. list[0] + 1].
Members(list) == {At(list, k) : k \in 2 .. (At(list, 0) + 1)}

\* The neighbour set the latest scan of obj computed: o_list after the swap.
Snapshot(a, obj) == Members(a.slot[obj].o_list)

\* The slots of the active objects.
Active(a) == {s \in Slots : a.slot[s].type # AOI_OBJECT_INVALID}

\* The squared distance of the objects of two slots.
SlotDist2(a, s1, s2) ==
    (a.slot[s1].p[0] - a.slot[s2].p[0]) * (a.slot[s1].p[0] - a.slot[s2].p[0])
    + (a.slot[s1].p[1] - a.slot[s2].p[1]) * (a.slot[s1].p[1] - a.slot[s2].p[1])

(***************************************************************************)
(* Claims.                                                                 *)
(***************************************************************************)
\* C1: right after every aoi_locate or aoi_update call that changed the
\* state, adjacent objects of the X list and of the Y list have
\* non-decreasing coordinates on that axis.
C1_SortedAfterLocateOrUpdate ==
    [][(last'.op \in {"locate", "update"} /\ aoi' # aoi)
       => (Sorted(aoi', 0) /\ Sorted(aoi', 1))]_vars

\* C2: after aoi_trigger(A, enter_r, leave_r), every other active object
\* whose squared distance to A is <= enter_r^2 is in A's new neighbour set.
C2_ScanComplete ==
    (last.op = "trigger" /\ _aoi_object(aoi, last.id) # NULL)
    => LET obj == _aoi_object(aoi, last.id)
       IN  \A s \in Active(aoi) \ {obj} :
               SlotDist2(aoi, obj, s) <= last.er * last.er
               => aoi.slot[s].id \in Snapshot(aoi, obj)

\* C3: a scan emits no event for the id of an object destroyed before it.
C3_NoEventForDestroyed ==
    last.op = "trigger"
    => \A k \in 1 .. Len(last.out) : last.out[k].id \notin dead

\* C4: aoi_around(id, n), called once id has been scanned, returns the
\* smaller of n and the size of the neighbour set of the latest scan, and
\* writes that many ids, each a member of that set.
C4_AroundIsLatestSnapshot ==
    (last.op = "around" /\ last.id = WatchA /\ watch.run # 0
     /\ _aoi_object(aoi, WatchA) # NULL)
    => LET snap == Snapshot(aoi, _aoi_object(aoi, WatchA))
           k == IF last.er < Cardinality(snap) THEN last.er ELSE Cardinality(snap)
       IN  /\ last.ret = k
           /\ Len(last.out) = k
           /\ \A j \in 1 .. Len(last.out) : last.out[j] \in snap

\* C5: a scan of A repeated at once with the same radii returns 0 events.
C5_SecondScanSilent ==
    (last.op = "trigger" /\ _aoi_object(aoi, last.id) # NULL)
    => aoi_trigger(aoi, last.id, last.er, last.lr).r = 0

\* A scan of A has just emitted events, for neighbours inside enter_r and
\* with others left in the band between the radii.
C5_Witness ==
    /\ last.op = "trigger"
    /\ last.ret > 0
    /\ LET obj == _aoi_object(aoi, last.id)
       IN  /\ obj # NULL
           /\ \E s \in Active(aoi) \ {obj} :
                  /\ aoi.slot[s].id \in Snapshot(aoi, obj)
                  /\ SlotDist2(aoi, obj, s) > last.er * last.er
                  /\ SlotDist2(aoi, obj, s) < last.lr * last.lr

\* C6: when B is in A's neighbour snapshot at a distance strictly between
\* enter_r and leave_r, a scan of A with these radii keeps B in the snapshot
\* and emits no event for B.
C6_HysteresisStable ==
    LET obj == _aoi_object(aoi, WatchA)
    IN  obj # NULL
        => \A r \in RadiiTo(ScanMaxR), s \in Active(aoi) \ {obj} :
               (/\ aoi.slot[s].id \in Snapshot(aoi, obj)
                /\ SlotDist2(aoi, obj, s) > r[1] * r[1]
                /\ SlotDist2(aoi, obj, s) < r[2] * r[2])
               => LET t == aoi_trigger(aoi, WatchA, r[1], r[2])
                  IN  /\ aoi.slot[s].id \in Snapshot(t.aoi, obj)
                      /\ \A k \in 1 .. Len(t.list) : t.list[k].id # aoi.slot[s].id

\* C7: the events the scans of A (same radii) emit for B alternate ENTER,
\* LEAVE, ENTER, ... from ENTER on; when B was at distance 0 at A's first
\* scan and its distance never decreased, they are one ENTER and at most one
\* LEAVE, the LEAVE emitted once a scan finds B beyond leave_r.
C7_EnterLeaveAlternate ==
    /\ watch.alt
    /\ watch.run = 1
       => /\ watch.nE = 1
          /\ watch.nL <= 1
          /\ (last.op = "trigger" /\ Dist2(aoi, WatchA, WatchB) > last.lr * last.lr)
             => watch.nL = 1

\* The first half of C7 alone: the events for B alternate from ENTER on.
AlternationOnly == watch.alt

\* C8: aoi_enter succeeds exactly when some slot is free, and a failed
\* aoi_enter leaves every slot and both axis lists as they were; so the call
\* after AOI_MAX_AOI creations fails, and the call after a destroy succeeds.
C8_CreateIffFreeSlot ==
    \A ud \in 1 .. MaxUd :
        LET r == aoi_enter(aoi, ud)
        IN  /\ (r.ret # -1) <=> (Active(aoi) # Slots)
            /\ r.ret = -1 => (r.aoi.slot = aoi.slot /\ r.aoi.list = aoi.list)

\* The pool is full and an aoi_enter has just failed.
C8_Witness ==
    /\ last.op = "enter"
    /\ last.ret = -1
    /\ Active(aoi) = Slots
    /\ Cardinality(DOMAIN live) = AOI_MAX_AOI

\* C9: aoi_ud of an id created and not destroyed is the payload it was
\* created with; aoi_ud of a destroyed id is 0 and aoi_moving of it is 0,
\* also once its slot holds a later object.
C9_HandleValidity ==
    /\ \A id \in DOMAIN live : aoi_ud(aoi, id) = live[id]
    /\ \A id \in dead : aoi_ud(aoi, id) = 0 /\ aoi_moving(aoi, id) = 0

\* The slot of a destroyed id holds a later object, which is moving.
C9_Witness ==
    \E id \in dead :
        LET h == AOI_HASH_ID(id)
        IN  /\ aoi.slot[h].type # AOI_OBJECT_INVALID
            /\ aoi.slot[h].id \in DOMAIN live
            /\ aoi.slot[h].id # id
            /\ aoi.slot[h].n_tick > 0

\* C10: aoi_leave, aoi_locate, aoi_move, aoi_speed, aoi_update and
\* aoi_trigger with an id that is negative, not issued, or destroyed leave
\* the state as it was, and aoi_trigger returns 0.
C10_StaleIdNoOp ==
    \A id \in Ids \ DOMAIN live :
        /\ aoi_leave(aoi, id) = aoi
        /\ \A x \in Xs, y \in Ys :
               /\ aoi_locate(aoi, id, x, y) = aoi
               /\ aoi_move(aoi, id, x, y) = aoi
        /\ \A speed \in 0 .. MaxSpeed : aoi_speed(aoi, id, speed) = aoi
        /\ \A tick \in 0 .. MaxTick : aoi_update(aoi, id, tick) = aoi
        /\ \A r \in RadiiTo(MaxR) :
               LET t == aoi_trigger(aoi, id, r[1], r[2])
               IN  t.aoi = aoi /\ t.r = 0

\* A destroy has just run while the slot of a destroyed id holds a later,
\* moving object with neighbours in its snapshot.
C10_Witness ==
    /\ last.op = "leave"
    /\ \E id \in dead :
           LET h == AOI_HASH_ID(id)
           IN  /\ aoi.slot[h].type # AOI_OBJECT_INVALID
               /\ aoi.slot[h].id # id
               /\ aoi.slot[h].speed > 0
               /\ Snapshot(aoi, h) # {}

\* The first n objects of axis i from p on, following next[i].
RECURSIVE Walk(_, _, _, _)
Walk(a, i, p, n) ==
    IF p = NULL \/ n = 0 THEN <<>>
    ELSE <<p>> \o Walk(a, i, a.slot[p].next[i], n - 1)

\* Axis list i holds every active object once and nothing else, ends, and
\* prev[i] is the inverse of next[i], the head having no prev[i].
WellLinked(a, i) ==
    LET s == Walk(a, i, a.list[i], AOI_MAX_AOI + 1)
    IN  /\ Len(s) = Cardinality(Active(a))
        /\ {s[k] : k \in 1 .. Len(s)} = Active(a)
        /\ a.list[i] # NULL => a.slot[a.list[i]].prev[i] = NULL
        /\ \A k \in 1 .. (Len(s) - 1) : a.slot[s[k + 1]].prev[i] = s[k]
        /\ \A f \in Slots \ Active(a) :
               a.slot[f].prev[i] = NULL /\ a.slot[f].next[i] = NULL

\* C11: after any sequence of calls, each axis list, walked from its head by
\* next, holds every active object exactly once and no free one, is acyclic,
\* and prev is the exact inverse of next with the head having no prev.
C11_AxisListsWellLinked == WellLinked(aoi, 0) /\ WellLinked(aoi, 1)

\* Three objects are linked, a teleport or an advance has just reordered the
\* X list, and an earlier destroy freed a slot that is in use again.
C11_Witness ==
    /\ last.op \in {"locate", "update"}
    /\ Active(aoi) = Slots
    /\ dead # {}
    /\ Walk(aoi, 0, aoi.list[0], AOI_MAX_AOI) # Walk(aoi, 1, aoi.list[1], AOI_MAX_AOI)

\* C12: an active object whose speed is 0 is not moving: aoi_moving of its
\* id is 0, also after aoi_speed(id, 0) during a move.
C12_SpeedZeroNotMoving ==
    \A s \in Active(aoi) :
        aoi.slot[s].speed = 0 => aoi_moving(aoi, aoi.slot[s].id) = 0

\* C13: the id a successful aoi_enter returns is the id of no active object
\* and is greater than every id returned before, alive or destroyed.
C13_IdsFreshAndIncreasing ==
    LET r == aoi_enter(aoi, 1)
    IN  r.ret # -1
        => /\ \A s \in Active(aoi) : aoi.slot[s].id # r.ret
           /\ \A id \in (DOMAIN live) \cup dead : id < r.ret

\* An aoi_enter has just given out an id whose slot a destroyed id had held,
\* after a failed aoi_enter made the counter skip a round.
C13_Witness ==
    /\ last.op = "enter"
    /\ last.ret >= 2 * AOI_MAX_AOI
    /\ \E id \in dead : AOI_HASH_ID(id) = AOI_HASH_ID(last.ret)
    /\ Cardinality((DOMAIN live) \cup dead) <= AOI_MAX_AOI + 1

\* The ids of the events of kind e in an event list.
EventIds(ev, e) == {ev[k].id : k \in {j \in 1 .. Len(ev) : ev[j].e = e}}

\* C14: after a scan of A with enter_r < leave_r, every id of the new set is
\* the id of an active object other than A within leave_r of A, every member
\* farther than enter_r was in the previous snapshot, and an object of the
\* band that was not in the previous snapshot is not a member and has no ENTER.
C14_ScanSound ==
    (last.op = "trigger" /\ _aoi_object(aoi, last.id) # NULL)
    => LET obj == _aoi_object(aoi, last.id)
           new == Members(aoi.slot[obj].o_list)
           prev == Members(aoi.slot[obj].n_list)
       IN  /\ \A id \in new :
                  LET s == _aoi_object(aoi, id)
                  IN  /\ s # NULL
                      /\ s # obj
                      /\ SlotDist2(aoi, obj, s) <= last.lr * last.lr
                      /\ SlotDist2(aoi, obj, s) > last.er * last.er
                         => id \in prev
           /\ \A s \in Active(aoi) \ {obj} :
                  (/\ SlotDist2(aoi, obj, s) > last.er * last.er
                   /\ SlotDist2(aoi, obj, s) <= last.lr * last.lr
                   /\ aoi.slot[s].id \notin prev)
                  => /\ aoi.slot[s].id \notin new
                     /\ aoi.slot[s].id \notin EventIds(last.out, AOI_ENTER)

\* A scan found two objects in the band: one kept from the previous snapshot,
\* one that was not in it and stays out.
C14_Witness ==
    /\ last.op = "trigger"
    /\ _aoi_object(aoi, last.id) # NULL
    /\ LET obj == _aoi_object(aoi, last.id)
           new == Members(aoi.slot[obj].o_list)
           prev == Members(aoi.slot[obj].n_list)
           band == {s \in Active(aoi) \ {obj} :
                        /\ SlotDist2(aoi, obj, s) > last.er * last.er
                        /\ SlotDist2(aoi, obj, s) <= last.lr * last.lr}
       IN  /\ \E s \in band : aoi.slot[s].id \in new \cap prev
           /\ \E s \in band : aoi.slot[s].id \notin new \cup prev

\* The events of a scan are the difference of the two sets, with a LEAVE for
\* each id of prev \ new that leave_ids holds, and name no id twice.
DiffExact(ev, new, prev, leave_ids) ==
    /\ EventIds(ev, AOI_ENTER) = new \ prev
    /\ EventIds(ev, AOI_LEAVE) = (prev \ new) \cap leave_ids
    /\ Len(ev) = Cardinality(new \ prev)
                 + Cardinality((prev \ new) \cap leave_ids)

\* C15: the events of a scan of A are one ENTER for each id of the new set
\* that was not in the previous snapshot and one LEAVE for each id of a still
\* active object of the previous snapshot that is not in the new set, and
\* nothing else (new: the list the next scan of A starts from, o_list after
\* the swap; previous: the list this scan started from, n_list after it).
C15_DiffExact ==
    (last.op = "trigger" /\ _aoi_object(aoi, last.id) # NULL)
    => LET obj == _aoi_object(aoi, last.id)
           new == Members(aoi.slot[obj].o_list)
           prev == Members(aoi.slot[obj].n_list)
       IN  DiffExact(last.out, new, prev,
                     {id \in prev : _aoi_object(aoi, id) # NULL})

\* The same difference when the ids of destroyed objects may get a LEAVE.
DiffExactUpToDestroyed ==
    (last.op = "trigger" /\ _aoi_object(aoi, last.id) # NULL)
    => LET obj == _aoi_object(aoi, last.id)
           new == Members(aoi.slot[obj].o_list)
           prev == Members(aoi.slot[obj].n_list)
           act == {id \in prev : _aoi_object(aoi, id) # NULL}
       IN  \E gone \in SUBSET (prev \ act) :
               DiffExact(last.out, new, prev, act \cup gone)

\* A neighbour list of the object with id own: no longer than its capacity,
\* strictly increasing, and without own.
WellFormedList(list, own) ==
    /\ At(list, 0) <= At(list, 1)
    /\ \A k \in 2 .. At(list, 0) : At(list, k) < At(list, k + 1)
    /\ own \notin Members(list)

\* C16: in every reachable state the snapshot of each active object (o_list,
\* the set of its latest scan) is strictly increasing in id, does not hold
\* the object's own id, and its length is at most its recorded capacity.
C16_SnapshotWellFormed ==
    \A s \in Active(aoi) : WellFormedList(aoi.slot[s].o_list, aoi.slot[s].id)

\* A scan has just filled a snapshot past the default capacity: two ids, in a
\* list whose capacity was doubled, found in the order larger id first.
C16_Witness ==
    /\ last.op = "trigger"
    /\ _aoi_object(aoi, last.id) # NULL
    /\ LET obj == _aoi_object(aoi, last.id)
       IN  /\ At(aoi.slot[obj].o_list, 0) = 2
           /\ At(aoi.slot[obj].o_list, 1) = 2 * AOI_DEF_AOI
           /\ aoi.slot[obj].prev[0] # NULL
           /\ aoi.slot[aoi.slot[obj].prev[0]].prev[0] # NULL
           /\ aoi.slot[aoi.slot[obj].prev[0]].id
              > aoi.slot[aoi.slot[aoi.slot[obj].prev[0]].prev[0]].id

\* The duration aoi_move computed for the current move of o: the truncated
\* distance from its start to its destination over the speed it had then.
MoveDuration(o) == Isqrt(o.d[0] * o.d[0] + o.d[1] * o.d[1]) \div o.e

\* C17: for a moving object (speed > 0, n_tick = r > 0), aoi_update(id, t)
\* with t >= r leaves n_tick = 0, aoi_moving false and the position equal to
\* the destination; with 0 <= t < r it takes t from n_tick and adds t to
\* p_tick; n_tick is never negative and p_tick + n_tick is the duration
\* aoi_move computed.
C17_AdvanceClampsAndSnaps ==
    \A s \in Active(aoi) :
        LET o == aoi.slot[s]
        IN  /\ o.n_tick >= 0
            /\ (o.speed > 0 /\ o.n_tick > 0)
               => /\ o.p_tick + o.n_tick = MoveDuration(o)
                  /\ \A t \in 0 .. MoveMaxTick :
                         LET a2 == aoi_update(aoi, o.id, t)
                             o2 == a2.slot[s]
                         IN  IF t >= o.n_tick
                             THEN /\ o2.n_tick = 0
                                  /\ aoi_moving(a2, o.id) = 0
                                  /\ o2.p = o.dp
                                  /\ o2.dp = o.dp
                             ELSE /\ o2.n_tick = o.n_tick - t
                                  /\ o2.p_tick = o.p_tick + t
                                  /\ o2.p_tick + o2.n_tick = MoveDuration(o2)

\* An advance has left an object in the middle of its move, short of its
\* destination, with more than one tick to go: the next advance may fall
\* short of the end, reach it or pass it.
C17_Witness ==
    /\ last.op = "update"
    /\ \E s \in Active(aoi) :
           /\ aoi.slot[s].speed > 0
           /\ aoi.slot[s].p_tick > 0
           /\ aoi.slot[s].n_tick > 1
           /\ aoi.slot[s].n_tick < MoveMaxTick + 1
           /\ aoi.slot[s].p # aoi.slot[s].dp

\* The record o with the links of o2: what o becomes when only its place
\* in the axis lists changes.
Placed(o, o2) == [o EXCEPT !.prev = o2.prev, !.next = o2.next]

\* C18: aoi_locate(id, x, y) on an active object changes its position and the
\* links of the axis lists and nothing else (speed, sp, dp, d, e, p_tick,
\* n_tick and both neighbour lists of the object, the other objects and the
\* counter are as before), so aoi_moving(id) is the same after it and a later
\* aoi_update(id, t) gives the position it would have given without it.
C18_TeleportKeepsMove ==
    \A s \in Active(aoi) : \A x \in MoveXs, y \in MoveYs :
        LET o == aoi.slot[s]
            a2 == aoi_locate(aoi, o.id, x, y)
        IN  /\ a2.id = aoi.id
            /\ a2.slot[s] = Placed([o EXCEPT !.p = Vec(x, y)], a2.slot[s])
            /\ \A f \in Slots \ {s} : a2.slot[f] = Placed(aoi.slot[f], a2.slot[f])
            /\ WellLinked(a2, 0) /\ WellLinked(a2, 1)
            /\ aoi_moving(a2, o.id) = aoi_moving(aoi, o.id)
            /\ (o.speed > 0 /\ o.n_tick > 0)
               => \A t \in 0 .. MoveMaxTick :
                      aoi_update(a2, o.id, t).slot[s].p
                      = aoi_update(aoi, o.id, t).slot[s].p

\* A teleport has put a moving object, part of its way gone, at a position
\* that is not the one its move gives it, with a second object in the lists.
C18_Witness ==
    /\ last.op = "locate"
    /\ Cardinality(Active(aoi)) > 1
    /\ \E s \in Active(aoi) :
           /\ aoi.slot[s].speed > 0
           /\ aoi.slot[s].n_tick > 0
           /\ aoi.slot[s].p_tick > 0
           /\ aoi.slot[s].p # aoi_update(aoi, aoi.slot[s].id, 0).slot[s].p
           /\ aoi.list[0] # s

\* C19: when a call of aoi_move, aoi_speed or aoi_update takes an active
\* object from moving (n_tick > 0) to not moving, the object is at the
\* destination of its move.
C19_MovesEndAtDestination ==
    [][\A s \in Active(aoi) :
           (/\ last'.op \in {"move", "speed", "update"}
            /\ aoi_moving(aoi, aoi.slot[s].id) = 1
            /\ aoi_moving(aoi', aoi.slot[s].id) = 0)
           => aoi'.slot[s].p = aoi'.slot[s].dp]_vars

\* C20: a scan writes and returns at most AOI_MAX_AOI events, the length of
\* elist, so every cell it writes is a cell of elist, also when the previous
\* snapshot holds ids of destroyed objects.
C20_EventBufferBound ==
    last.op = "trigger"
    => /\ last.ret = Len(last.out)
       /\ last.ret <= AOI_MAX_AOI
       /\ \A k \in 1 .. Len(last.out) : k - 1 < AOI_MAX_AOI

\* A scan of WatchA whose previous snapshot was full, of ids of objects
\* destroyed since, has returned an ENTER for each object that took their
\* slots.
C20_Witness ==
    /\ last.op = "trigger"
    /\ _aoi_object(aoi, last.id) # NULL
    /\ LET obj == _aoi_object(aoi, last.id)
           new == Members(aoi.slot[obj].o_list)
           prev == Members(aoi.slot[obj].n_list)
       IN  /\ Cardinality(prev) = AOI_MAX_AOI - 1
           /\ prev \subseteq dead
           /\ Cardinality(new) = AOI_MAX_AOI - 1
           /\ last.ret = AOI_MAX_AOI - 1

====
